---------------------------- MODULE Spec2Model ----------------------------
(***************************************************************************)
(* Job search engine: the scraper that is to produce the job list          *)
(* (src/scraper/src/main.rs, which does not build), its function           *)
(* extract_salary, and the server that indexes the list of data/jobs.json  *)
(* and answers GET /search (src/server/src/main.rs).                       *)
(*                                                                         *)
(* Text is a sequence of one-character strings, so that tokenising,        *)
(* lower-casing, query parsing and the salary pattern are computed         *)
(* character by character.                                                 *)
(***************************************************************************)
EXTENDS Integers, Sequences, FiniteSets

\* the server: index directory, job list, position in main, loop index,
\* index writer, searcher, last request and response, restarted
VARIABLES disk, jobs, pc, idx, writer, reader, req, resp, restarted
\* the scraper: how far `cargo run -p scraper` got (its build, its position
\* in main), index of the page, listings taken from the page, the jobs
\* found (its Vec<Job> jobs), the urls seen, and the job list it wrote to
\* data/jobs.json (None: it wrote none)
VARIABLES spc, url_idx, taken, found, seen_urls, saved
\* extract_salary on its own: position, argument and result
VARIABLES salary_pc, salary_raw, salary_min

serverVars == <<disk, jobs, pc, idx, writer, reader, req, resp, restarted>>
scraperVars == <<spc, url_idx, taken, found, seen_urls, saved>>
salaryVars == <<salary_pc, salary_raw, salary_min>>
vars == <<serverVars, scraperVars, salaryVars>>

\* Option<T>: None, or Some(x)
None == <<>>
Some(x) == <<x>>

(***************************************************************************)
(* Bounds of the model.                                                    *)
(***************************************************************************)
\* longest job list read from data/jobs.json
MaxJobs == 11
\* most hits of one search whose document cannot be read
MaxUnreadable == 1
\* only the first VariedPrefix jobs of the list may differ from the common posting
VariedPrefix == 1
\* the second indexing thread is awake for the first StealWindow documents
StealWindow == 2

(***************************************************************************)
(* Program constants.                                                      *)
(***************************************************************************)
\* TopDocs::with_limit(10)
Limit == 10
\* indexing threads of index.writer(..): one segment per thread that got work
Threads == {"t1", "t2"}
\* the thread that is awake throughout
FirstThread == "t1"

(***************************************************************************)
(* common::Job and the job lists of the model.                             *)
(***************************************************************************)
Job(t, c, d, s) ==
  [title |-> t, company |-> c, location |-> <<"R">>, description |-> d,
   salary_raw |-> d, salary_min |-> s, url |-> <<"u">>]

\* the common posting: many listings share a title
FillerJob == Job(<<"A">>, <<"x">>, <<"b">>, None)
\* same title term, longer description: ties with the common posting on a
\* title query, scores lower on a description query
VariedJob == Job(<<"a">>, <<"y">>, <<"b", " ", "c">>, Some(1000))
JobKinds == {FillerJob, VariedJob}
\* a posting of an earlier run that is no longer in the source
StaleJob == Job(<<"c">>, <<"z">>, <<"c", " ", "a">>, None)

Min(a, b) == IF a < b THEN a ELSE b

JobLists ==
  UNION { { [i \in 1..n |-> IF i <= VariedPrefix THEN f[i] ELSE FillerJob] :
              f \in [1..Min(n, VariedPrefix) -> JobKinds] } :
          n \in 0..MaxJobs }

(***************************************************************************)
(* Schema (build_schema) and the schemas an index directory may hold.      *)
(***************************************************************************)
TEXT_STORED == [type |-> "text", indexed |-> TRUE, stored |-> TRUE]
TEXT == [type |-> "text", indexed |-> TRUE, stored |-> FALSE]
INT_INDEXED == [type |-> "i64", indexed |-> TRUE, stored |-> FALSE]

build_schema ==
  [title |-> TEXT_STORED, company |-> TEXT_STORED,
   description |-> TEXT, salary_min |-> INT_INDEXED]

\* same field names, other capabilities: title not stored, description stored
RetiredSchema ==
  [title |-> TEXT, company |-> TEXT_STORED,
   description |-> TEXT_STORED, salary_min |-> INT_INDEXED]

\* an index written before salary_min was added
ShortSchema ==
  [title |-> TEXT_STORED, company |-> TEXT_STORED, description |-> TEXT]

PersistedSchemas == {build_schema, RetiredSchema, ShortSchema}

get_field(schema, name) == IF name \in DOMAIN schema THEN Some(name) ELSE None

(***************************************************************************)
(* Text analysis: the default tokenizer splits on characters that are not  *)
(* alphanumeric and lower-cases every token.                               *)
(***************************************************************************)
Letters == {"a", "b", "c", "x", "y", "z", "A", "B"}

Lower(c) == CASE c = "A" -> "a" [] c = "B" -> "b" [] OTHER -> c

Flush(cur) == IF cur = <<>> THEN <<>> ELSE <<cur>>

RECURSIVE TokenizeFrom(_, _, _)
TokenizeFrom(text, i, cur) ==
  IF i > Len(text) THEN Flush(cur)
  ELSE IF text[i] \in Letters
       THEN TokenizeFrom(text, i + 1, Append(cur, Lower(text[i])))
       ELSE Flush(cur) \o TokenizeFrom(text, i + 1, <<>>)

Tokenize(text) == TokenizeFrom(text, 1, <<>>)

(***************************************************************************)
(* Documents and segments.  A document holds the field values given to it  *)
(* (lines 107-113), the terms of its text fields, and op, the position in  *)
(* the job list of its add_document call (0 for a document no run of this  *)
(* model added).  A segment is the sequence of documents one indexing      *)
(* thread received; a document's address is <<segment ordinal, doc id>>.   *)
(***************************************************************************)
Doc(op, job) ==
  [op |-> op, title |-> job.title, company |-> job.company,
   description |-> job.description, salary_min |-> job.salary_min,
   terms |-> [title |-> Tokenize(job.title), company |-> Tokenize(job.company),
              description |-> Tokenize(job.description)]]

PriorSegments == { <<>>, << <<Doc(0, StaleJob)>> >> }

\* an index directory without meta.json
NoSchema == [f \in {} |-> TEXT]
NoIndex == [meta |-> FALSE, schema |-> NoSchema, segments |-> <<>>]

PriorDisks ==
  {NoIndex} \cup
  { [meta |-> TRUE, schema |-> s, segments |-> p] :
      s \in PersistedSchemas, p \in PriorSegments }

RECURSIVE Flatten(_)
Flatten(segs) ==
  IF segs = <<>> THEN <<>> ELSE Head(segs) \o Flatten(Tail(segs))

NonEmpty(segs) == SelectSeq(segs, LAMBDA s : s # <<>>)

Addresses(segs) ==
  UNION { { <<s, d>> : d \in 1..Len(segs[s]) } : s \in 1..Len(segs) }

DocAt(segs, a) == segs[a[1]][a[2]]

NoWriter == [old |-> <<>>, fresh |-> [t \in Threads |-> <<>>]]
NoReq == [q |-> None, limit |-> None, search_ok |-> TRUE, bad |-> {}]
NoResp ==
  [stage |-> "none", query |-> <<>>, total_results |-> 0, results |-> <<>>,
   hits |-> <<>>]

\* the scraper is not running
\* data/jobs.json as the scraper leaves it: no file, the whole list, or a
\* file cut short
NoFile == [file |-> "none", jobs |-> <<>>]
WholeFile(js) == [file |-> "whole", jobs |-> js]
PartialFile == [file |-> "partial", jobs |-> <<>>]

ScraperOff ==
  /\ spc = "off"
  /\ url_idx = 0
  /\ taken = 0
  /\ found = <<>>
  /\ seen_urls = {}
  /\ saved = NoFile

SalaryOff ==
  /\ salary_pc = "off"
  /\ salary_raw = <<>>
  /\ salary_min = None

\* the server is not running
ServerOff ==
  /\ disk = NoIndex
  /\ jobs = <<>>
  /\ pc = "off"
  /\ idx = 0
  /\ writer = NoWriter
  /\ reader = <<>>
  /\ req = NoReq
  /\ resp = NoResp
  /\ restarted = FALSE

\* the fields of common::Job
JobFields ==
  {"title", "company", "location", "description", "salary_raw", "salary_min",
   "url"}

\* the fields the scraper's literal `Job { .. }` gives
JobLiteralFields ==
  {"title", "company", "location", "description", "salary_min", "url"}

\* a record of data/jobs.json that has the fields of the scraper's literal
LiteralRecord ==
  [title |-> <<"A">>, company |-> <<"x">>, location |-> <<"R">>,
   description |-> <<"b">>, salary_min |-> None, url |-> <<"u">>]

\* a record without salary_min
NoSalaryRecord ==
  [title |-> <<"A">>, company |-> <<"x">>, location |-> <<"R">>,
   description |-> <<"b">>, salary_raw |-> <<"b">>, url |-> <<"u">>]

\* data/jobs.json as the server finds it: absent (None), or a list
JobFiles ==
  {None} \cup { Some(l) : l \in JobLists }
         \cup {Some(<<LiteralRecord>>), Some(<<NoSalaryRecord>>)}

\* the derived Deserialize of Job: every field but the Option must be
\* there; a missing Option is None
deserialize_ok(rec) == (JobFields \ {"salary_min"}) \subseteq DOMAIN rec

deserialize(rec) ==
  Job(rec.title, rec.company, rec.description,
      IF "salary_min" \in DOMAIN rec THEN rec.salary_min ELSE None)

\* main reads data/jobs.json: no file gives no jobs, a file that does not
\* parse ends the process (expect)
load_jobs(file) ==
  IF file = None THEN [pc |-> "start", jobs |-> <<>>]
  ELSE IF \A i \in 1..Len(file[1]) : deserialize_ok(file[1][i])
  THEN [pc |-> "start", jobs |-> [i \in 1..Len(file[1]) |-> deserialize(file[1][i])]]
  ELSE [pc |-> "panicked", jobs |-> <<>>]

\* the scraper has not been run; the server starts: main has read
\* data/jobs.json as it was found
Init ==
  /\ disk \in PriorDisks
  /\ \E file \in JobFiles :
       /\ jobs = load_jobs(file).jobs
       /\ pc = load_jobs(file).pc
  /\ idx = 0
  /\ writer = NoWriter
  /\ reader = <<>>
  /\ req = NoReq
  /\ resp = NoResp
  /\ restarted = FALSE
  /\ spc = "build"
  /\ url_idx = 0
  /\ taken = 0
  /\ found = <<>>
  /\ seen_urls = {}
  /\ saved = NoFile
  /\ SalaryOff

(***************************************************************************)
(* cargo run -p scraper.  The literal `Job { .. }` of main leaves out      *)
(* salary_raw, a field of common::Job: rustc rejects the crate (E0063),    *)
(* nothing of main runs and no data/jobs.json is written.  The server      *)
(* does not wait for the scraper: it runs on data/jobs.json as found.      *)
(***************************************************************************)
BuildScraper ==
  /\ spc = "build"
  /\ spc' = IF JobLiteralFields = JobFields THEN "built" ELSE "build_failed"
  /\ UNCHANGED <<url_idx, taken, found, seen_urls, saved, serverVars, salaryVars>>

(***************************************************************************)
(* create_index: open or create the index, clear it, add every job,        *)
(* commit.  Every call that returns a Result may fail (io = FALSE); main   *)
(* ends the process on the error (expect).                                 *)
(***************************************************************************)
SchemaFields == {"title", "company", "description", "salary_min"}

\* fs::create_dir_all, Index::open_in_dir / Index::create_in_dir
open_or_create(d) ==
  IF d.meta THEN d
  ELSE [meta |-> TRUE, schema |-> build_schema, segments |-> <<>>]

OpenOrCreate ==
  /\ pc = "start"
  /\ \E io \in BOOLEAN :
       IF io
       THEN /\ disk' = open_or_create(disk)
            /\ pc' = "fields"
       ELSE /\ pc' = "failed"
            /\ UNCHANGED disk
  /\ UNCHANGED <<jobs, idx, writer, reader, req, resp, restarted, scraperVars, salaryVars>>

\* index.schema().get_field(..).unwrap() for the four fields
GetFields ==
  /\ pc = "fields"
  /\ pc' = IF \A f \in SchemaFields : get_field(disk.schema, f) # None
           THEN "writer" ELSE "failed"
  /\ UNCHANGED <<disk, jobs, idx, writer, reader, req, resp, restarted, scraperVars, salaryVars>>

\* index.writer(50_000_000)
NewWriter ==
  /\ pc = "writer"
  /\ \E io \in BOOLEAN :
       IF io
       THEN /\ writer' = [old |-> disk.segments,
                          fresh |-> [t \in Threads |-> <<>>]]
            /\ pc' = "delete"
       ELSE /\ pc' = "failed"
            /\ UNCHANGED writer
  /\ UNCHANGED <<disk, jobs, idx, reader, req, resp, restarted, scraperVars, salaryVars>>

\* index_writer.delete_all_documents(): drops the segments the writer holds;
\* nothing reaches the directory before commit
delete_all_documents(w) == [w EXCEPT !.old = <<>>]

\* a DeleteAll whose deletion reaches the directory at once
DeleteAllEager ==
  /\ pc = "delete"
  /\ \E io \in BOOLEAN :
       IF io
       THEN /\ writer' = delete_all_documents(writer)
            /\ disk' = [disk EXCEPT !.segments = <<>>]
            /\ idx' = 1
            /\ pc' = "adding"
       ELSE /\ pc' = "failed"
            /\ writer' = NoWriter
            /\ UNCHANGED <<disk, idx>>
  /\ UNCHANGED <<jobs, reader, req, resp, restarted, scraperVars, salaryVars>>

DeleteAll ==
  /\ pc = "delete"
  /\ \E io \in BOOLEAN :
       IF io
       THEN /\ writer' = delete_all_documents(writer)
            /\ idx' = 1
            /\ pc' = "adding"
       ELSE /\ pc' = "failed"
            /\ writer' = NoWriter
            /\ UNCHANGED idx
  /\ UNCHANGED <<disk, jobs, reader, req, resp, restarted, scraperVars, salaryVars>>

\* one turn of `for job in jobs`: build the document, index_writer.add_document.
\* The document goes to whichever indexing thread takes it from the queue.
add_document(w, t, doc) == [w EXCEPT !.fresh[t] = Append(@, doc)]

AddDocument ==
  /\ pc = "adding"
  /\ idx <= Len(jobs)
  /\ \E io \in BOOLEAN :
       IF io
       THEN \E t \in Threads :
              /\ t # FirstThread => idx <= StealWindow
              /\ writer' = add_document(writer, t, Doc(idx, jobs[idx]))
              /\ idx' = idx + 1
              /\ UNCHANGED pc
       ELSE /\ pc' = "failed"
            /\ writer' = NoWriter
            /\ UNCHANGED idx
  /\ UNCHANGED <<disk, jobs, reader, req, resp, restarted, scraperVars, salaryVars>>

\* the orders in which the directory may list the threads' segments
Orders == { p \in [1..Cardinality(Threads) -> Threads] :
              \A i, j \in 1..Cardinality(Threads) : p[i] = p[j] => i = j }

\* the segments a commit publishes, in the order the directory lists them
committed(w, p) ==
  NonEmpty(w.old \o [i \in 1..Cardinality(Threads) |-> w.fresh[p[i]]])

\* index_writer.commit()
commit(d, w, p) == [d EXCEPT !.segments = committed(w, p)]

Commit ==
  /\ pc = "adding"
  /\ idx > Len(jobs)
  /\ \E io \in BOOLEAN :
       IF io
       THEN /\ \E p \in Orders : disk' = commit(disk, writer, p)
            /\ pc' = "reader"
       ELSE /\ pc' = "failed"
            /\ UNCHANGED disk
  /\ writer' = NoWriter
  /\ UNCHANGED <<jobs, idx, reader, req, resp, restarted, scraperVars, salaryVars>>

\* index.reader_builder().reload_policy(OnCommit).try_into(): the searcher
\* is loaded from the committed segments
NewReader ==
  /\ pc = "reader"
  /\ \E io \in BOOLEAN :
       IF io
       THEN /\ reader' = disk.segments
            /\ pc' = "serving"
       ELSE /\ pc' = "failed"
            /\ UNCHANGED reader
  /\ UNCHANGED <<disk, jobs, idx, writer, req, resp, restarted, scraperVars, salaryVars>>

(***************************************************************************)
(* QueryParser::parse_query over the default fields title and description: *)
(* clauses separated by blanks, a clause a word or a quoted phrase.  A     *)
(* quote that is never closed is a syntax error; so is a colon, which      *)
(* ends a field name no schema here has.                                   *)
(***************************************************************************)
ParseError == [ok |-> FALSE, clauses |-> <<>>]

RECURSIVE FindChar(_, _, _)
\* first position >= i of q holding a character of stop, 0 if none
FindChar(q, i, stop) ==
  IF i > Len(q) THEN 0
  ELSE IF q[i] \in stop THEN i ELSE FindChar(q, i + 1, stop)

Cons(clause, rest) ==
  IF ~rest.ok THEN ParseError
  ELSE [ok |-> TRUE, clauses |-> <<clause>> \o rest.clauses]

RECURSIVE ParseFrom(_, _)
ParseFrom(q, i) ==
  IF i > Len(q) THEN [ok |-> TRUE, clauses |-> <<>>]
  ELSE IF q[i] = " " THEN ParseFrom(q, i + 1)
  ELSE IF q[i] = ":" THEN ParseError
  ELSE IF q[i] = "\""
       THEN LET j == FindChar(q, i + 1, {"\""})
            IN  IF j = 0 THEN ParseError
                ELSE Cons(Tokenize(SubSeq(q, i + 1, j - 1)), ParseFrom(q, j + 1))
       ELSE LET j == FindChar(q, i, {" ", ":", "\""})
                e == IF j = 0 THEN Len(q) + 1 ELSE j
            IN  Cons(Tokenize(SubSeq(q, i, e - 1)), ParseFrom(q, e))

\* a parser that never rejects: every token of the text is a term
parse_query_lenient(q) ==
  [ok |-> TRUE, clauses |-> [i \in 1..Len(Tokenize(q)) |-> <<Tokenize(q)[i]>>]]

\* each clause is the term sequence of a word (one term) or of a phrase;
\* a clause without terms matches nothing and is dropped
parse_query(q) ==
  LET r == ParseFrom(q, 1)
  IN  [ok |-> r.ok, clauses |-> SelectSeq(r.clauses, LAMBDA c : c # <<>>)]

(***************************************************************************)
(* searcher.search(&query, &TopDocs::with_limit(10)): BM25 over the        *)
(* searcher's segments, the clauses and default fields combined by OR      *)
(* (scores add up).  Scores are in millionths.                             *)
(***************************************************************************)
DefaultFields == {"title", "description"}

\* round(1000 * ln(1 + (N - n + 0.5) / (n + 0.5))), row N, column n
IdfTable == <<
  << 288,    0,    0,    0,    0,    0,    0,    0,    0,    0,    0,    0,    0,    0>>,
  << 693,  182,    0,    0,    0,    0,    0,    0,    0,    0,    0,    0,    0,    0>>,
  << 981,  470,  134,    0,    0,    0,    0,    0,    0,    0,    0,    0,    0,    0>>,
  <<1204,  693,  357,  105,    0,    0,    0,    0,    0,    0,    0,    0,    0,    0>>,
  <<1386,  875,  539,  288,   87,    0,    0,    0,    0,    0,    0,    0,    0,    0>>,
  <<1540, 1030,  693,  442,  241,   74,    0,    0,    0,    0,    0,    0,    0,    0>>,
  <<1674, 1163,  827,  575,  375,  208,   65,    0,    0,    0,    0,    0,    0,    0>>,
  <<1792, 1281,  944,  693,  492,  325,  182,   57,    0,    0,    0,    0,    0,    0>>,
  <<1897, 1386, 1050,  799,  598,  431,  288,  163,   51,    0,    0,    0,    0,    0>>,
  <<1992, 1482, 1145,  894,  693,  526,  383,  258,  147,   47,    0,    0,    0,    0>>,
  <<2079, 1569, 1232,  981,  780,  613,  470,  345,  234,  134,   43,    0,    0,    0>>,
  <<2159, 1649, 1312, 1061,  860,  693,  550,  425,  314,  214,  123,   39,    0,    0>>,
  <<2234, 1723, 1386, 1135,  934,  767,  624,  499,  388,  288,  197,  113,   36,    0>>,
  <<2303, 1792, 1455, 1204, 1003,  836,  693,  568,  457,  357,  266,  182,  105,   34>> >>

Idf(doc_count, doc_freq) == IF doc_freq = 0 THEN 0 ELSE IdfTable[doc_count][doc_freq]

\* 1000 * tf * (K1 + 1) / (tf + K1 * (1 - B + B * len / avg_len)) with K1 = 1.2,
\* B = 0.75 and avg_len = total_len / doc_count
TfNorm(tf, len, total_len, doc_count) ==
  (2200000 * tf * total_len) \div
  (1000 * tf * total_len + 300 * total_len + 900 * len * doc_count)

RECURSIVE SumSeq(_)
SumSeq(xs) == IF xs = <<>> THEN 0 ELSE Head(xs) + SumSeq(Tail(xs))

\* occurrences of the term sequence in the token sequence (term frequency
\* for one term, phrase count for several)
Count(tokens, terms) ==
  Cardinality({ p \in 1..(Len(tokens) - Len(terms) + 1) :
                  SubSeq(tokens, p, p + Len(terms) - 1) = terms })

\* tokens of every default field of every document of the searcher
TokenMap(segs) ==
  [a \in Addresses(segs) |->
    [f \in DefaultFields |-> DocAt(segs, a).terms[f]]]

\* total number of tokens of each default field
TotalTokens(toks) ==
  [f \in DefaultFields |->
    LET RECURSIVE Sum(_)
        Sum(as) == IF as = {} THEN 0
                   ELSE LET a == CHOOSE x \in as : TRUE
                        IN  Len(toks[a][f]) + Sum(as \ {a})
    IN  Sum(DOMAIN toks)]

DocFreq(toks, f, term) ==
  Cardinality({ a \in DOMAIN toks : Count(toks[a][f], <<term>>) > 0 })

\* the idf of a clause in a field: the sum over its terms
Weights(toks, clauses) ==
  [c \in 1..Len(clauses) |-> [f \in DefaultFields |->
    SumSeq([k \in 1..Len(clauses[c]) |->
              Idf(Cardinality(DOMAIN toks), DocFreq(toks, f, clauses[c][k]))])]]

FieldScore(tokens, terms, weight, total_len, doc_count) ==
  IF Count(tokens, terms) = 0 THEN 0
  ELSE (weight * TfNorm(Count(tokens, terms), Len(tokens), total_len, doc_count))
       \div 1000

ScoresWith(toks, clauses, total, weight) ==
  [a \in DOMAIN toks |->
    SumSeq([c \in 1..Len(clauses) |->
      FieldScore(toks[a].title, clauses[c], weight[c].title,
                 total.title, Cardinality(DOMAIN toks))
      + FieldScore(toks[a].description, clauses[c], weight[c].description,
                   total.description, Cardinality(DOMAIN toks))])]

ScoresOver(toks, clauses) ==
  ScoresWith(toks, clauses, TotalTokens(toks), Weights(toks, clauses))

\* segs: the searcher's segments; clauses: the parsed query.
\* The result maps every address to its score, 0 for a document that
\* does not match.
Scores(segs, clauses) == ScoresOver(TokenMap(segs), clauses)

AddrLess(a, b) == a[1] < b[1] \/ (a[1] = b[1] /\ a[2] < b[2])

\* the collector's order: higher score first, then lower address
Before(score, a, b) ==
  score[a] > score[b] \/ (score[a] = score[b] /\ AddrLess(a, b))

RECURSIVE SelectTop(_, _, _)
SelectTop(score, cands, k) ==
  IF k = 0 \/ cands = {} THEN <<>>
  ELSE LET best == CHOOSE a \in cands :
                     \A b \in cands \ {a} : Before(score, a, b)
       IN  <<best>> \o SelectTop(score, cands \ {best}, k - 1)

\* TopDocs::with_limit(limit): addresses of the best matching documents
top_docs(score, limit) ==
  SelectTop(score, { a \in DOMAIN score : score[a] > 0 }, limit)

(***************************************************************************)
(* search_handler.  req records the request and what the reads of the      *)
(* index did while serving it: search_ok (searcher.search returned Ok) and *)
(* bad (the addresses whose document could not be read).  resp is the      *)
(* SearchResponse, with the place the handler returned from (stage) and    *)
(* the addresses of the hits.                                              *)
(***************************************************************************)
Unknown == <<"U", "n", "k", "n", "o", "w", "n">>

\* retrieved_doc.get_first(field).and_then(as_text).unwrap_or("Unknown")
stored_text(schema, doc, field) ==
  IF schema[field].stored THEN doc[field] ELSE Unknown

SearchResult(schema, doc, score) ==
  [title |-> stored_text(schema, doc, "title"),
   company |-> stored_text(schema, doc, "company"),
   score |-> score]

\* the loop over top_docs: a hit whose document cannot be read is skipped
collect(top, bad) == SelectSeq(top, LAMBDA a : a \notin bad)

RECURSIVE SubsetsUpTo(_, _)
\* the subsets of S of at most k elements
SubsetsUpTo(S, k) ==
  IF k = 0 THEN {{}}
  ELSE SubsetsUpTo(S, k - 1)
         \cup { p \cup {a} : p \in SubsetsUpTo(S, k - 1), a \in S }

SearchResponse(stage, query_str, results, hits) ==
  [stage |-> stage, query |-> query_str, total_results |-> Len(results),
   results |-> results, hits |-> hits]

EmptyResponse(stage, query_str) == SearchResponse(stage, query_str, <<>>, <<>>)

unwrap_or_default(q) == IF q = None THEN <<>> ELSE q[1]

Queries ==
  { <<>>, <<"a">>, <<"B">>, <<"c">>, <<"a", " ", "b">>,
    <<"\"", "b", " ", "c", "\"">>, <<"\"", "a">>, <<"a", ":", "b">> }

\* the requests: q absent or one of Queries, without a limit parameter,
\* and one request that asks for a single hit.  SearchParams has no field
\* for the limit: the extractor drops it.
Requests ==
  { [q |-> q, limit |-> None] : q \in {None} \cup { Some(t) : t \in Queries } }
  \cup { [q |-> Some(<<"a">>), limit |-> Some(1)] }

Request(q, limit, search_ok, bad) ==
  [q |-> q, limit |-> limit, search_ok |-> search_ok, bad |-> bad]

\* the loop over top_docs and the final response
ranked(q, limit, query_str, schema, score, top) ==
  \E bad \in SubsetsUpTo({ top[i] : i \in 1..Len(top) }, MaxUnreadable) :
    /\ req' = Request(q, limit, TRUE, bad)
    /\ resp' = SearchResponse("ranked", query_str,
                 [i \in 1..Len(collect(top, bad)) |->
                    SearchResult(schema, DocAt(reader, collect(top, bad)[i]),
                                 score[collect(top, bad)[i]])],
                 collect(top, bad))

searched(q, limit, query_str, schema, score) ==
  ranked(q, limit, query_str, schema, score, top_docs(score, Limit))

parsed_query(q, limit, query_str, parsed) ==
  IF ~parsed.ok
  THEN /\ req' = Request(q, limit, TRUE, {})
       /\ resp' = EmptyResponse("parse_failed", query_str)
  ELSE \E search_ok \in BOOLEAN :
         IF ~search_ok
         THEN /\ req' = Request(q, limit, FALSE, {})
              /\ resp' = EmptyResponse("search_failed", query_str)
         ELSE searched(q, limit, query_str, disk.schema,
                       Scores(reader, parsed.clauses))

\* a handler without the early return for the empty query
search_handler_unguarded(q, limit) ==
  parsed_query(q, limit, unwrap_or_default(q),
               parse_query(unwrap_or_default(q)))

search_handler(q, limit) ==
  IF unwrap_or_default(q) = <<>>
  THEN /\ req' = Request(q, limit, TRUE, {})
       /\ resp' = EmptyResponse("empty_query", unwrap_or_default(q))
  ELSE parsed_query(q, limit, unwrap_or_default(q),
                    parse_query(unwrap_or_default(q)))

\* a request arrives and search_handler runs to its return
Search ==
  /\ pc = "serving"
  /\ resp = NoResp
  /\ \E r \in Requests : search_handler(r.q, r.limit)
  /\ UNCHANGED <<disk, jobs, pc, idx, writer, reader, restarted, scraperVars, salaryVars>>

\* the response is sent; nothing of the request is kept
Reply ==
  /\ pc = "serving"
  /\ resp # NoResp
  /\ req' = NoReq
  /\ resp' = NoResp
  /\ UNCHANGED <<disk, jobs, pc, idx, writer, reader, restarted, scraperVars, salaryVars>>

\* the process ends and the server is started again on the same job list
Restart ==
  /\ pc \in {"serving", "failed"}
  /\ resp = NoResp
  /\ restarted' = TRUE
  /\ pc' = "start"
  /\ idx' = 0
  /\ writer' = NoWriter
  /\ reader' = <<>>
  /\ UNCHANGED <<disk, jobs, req, resp, scraperVars, salaryVars>>

Next ==
  \/ BuildScraper
  \/ OpenOrCreate
  \/ GetFields
  \/ NewWriter
  \/ DeleteAll
  \/ AddDocument
  \/ Commit
  \/ NewReader
  \/ Search
  \/ Reply
  \/ Restart

Spec == Init /\ [][Next]_vars

(***************************************************************************)
(* Properties of the server.                                               *)
(***************************************************************************)
Responded == resp.stage # "none"

Range(f) == { f[i] : i \in DOMAIN f }

\* the response as the caller sees it
Visible(r) == [query |-> r.query, total_results |-> r.total_results,
               results |-> r.results]

EmptySuccess(text) == [query |-> text, total_results |-> 0, results |-> <<>>]

\* C1: a request whose q is absent or empty is answered with no results and
\* total_results = 0, from the early return: no query is parsed and the
\* index is not read.
C1_EmptyQueryReturnsNothing ==
  (Responded /\ req.q \in {None, Some(<<>>)}) =>
    /\ resp.total_results = 0
    /\ resp.results = <<>>
    /\ resp.stage = "empty_query"

C1_Witness ==
  /\ Responded
  /\ req.q \in {None, Some(<<>>)}
  /\ Addresses(reader) # {}

\* segs holds exactly one document per job of the list js, and nothing else
ExactlyJobs(segs, js) ==
  /\ Cardinality(Addresses(segs)) = Len(js)
  /\ \A i \in 1..Len(js) :
       \E a \in Addresses(segs) : DocAt(segs, a) = Doc(i, js[i])

\* C2: the committed segments (what a reader loads) change only in the step
\* that commits, and then to exactly the documents of the whole job list;
\* a step that fails leaves the committed segments as they were.
C2_RebuildIsAtomic ==
  [][ /\ (disk.segments' # disk.segments) =>
           (pc = "adding" /\ pc' = "reader" /\ ExactlyJobs(disk.segments', jobs'))
      /\ (pc' = "failed") => (disk.segments' = disk.segments) ]_vars

\* a rebuild failed after some documents were added and the earlier
\* documents are still the committed ones
C2_Witness ==
  /\ pc = "failed"
  /\ idx > 1
  /\ Addresses(disk.segments) # {}

\* C3 (as claimed): when searcher.search fails on a parsed, non-empty query
\* the caller does not get an empty successful response.
C3_ReadFailureSurfaced ==
  (Responded /\ ~req.search_ok) => Visible(resp) # EmptySuccess(resp.query)

\* a query text the parser rejects: a quote left open, or a colon
Malformed(text) ==
  \/ Cardinality({ i \in 1..Len(text) : text[i] = "\"" }) % 2 = 1
  \/ ":" \in Range(text)

\* C4: a non-empty query the parser rejects is answered with an empty
\* successful response that echoes the query, from the parse-error return:
\* the index is not searched.
C4_ParseErrorReturnsEmpty ==
  (Responded /\ req.q # None /\ Malformed(unwrap_or_default(req.q))) =>
    /\ Visible(resp) = EmptySuccess(req.q[1])
    /\ resp.stage = "parse_failed"

\* the rejected query has a term that documents of the index contain
C4_Witness ==
  /\ Responded
  /\ req.q = Some(<<"\"", "a">>)
  /\ resp.stage = "parse_failed"
  /\ \E a \in Addresses(reader) : <<"a">> \in Range(DocAt(reader, a).terms.title)

\* the addresses of the searcher's documents that match the query text
Matching(segs, text) ==
  { a \in Addresses(segs) : Scores(segs, parse_query(text).clauses)[a] > 0 }

RequestedLimit == IF req.limit = None THEN Limit ELSE req.limit[1]

\* C5 (as claimed): the number of results is the smaller of the limit of
\* the request (10 when the request names none) and the number of
\* matching documents.
C5_LimitRespected ==
  (resp.stage \in {"ranked", "search_failed"}) =>
    Len(resp.results) =
      Min(RequestedLimit, Cardinality(Matching(reader, resp.query)))

\* C6 (as claimed): with an index on disk whose schema is not the expected
\* one, create_index does not get past opening it and looking up its fields.
C6_SchemaMismatchRejected ==
  (disk.meta /\ disk.schema # build_schema) =>
    pc \in {"start", "panicked", "fields", "failed"}

\* C7 (the part that holds): after a successful rebuild the committed
\* index holds exactly one document per job of the list, whatever it held
\* before, also when the same list was indexed by the run before; no job
\* is hit twice.
C7_RebuildIsIdempotent ==
  /\ pc \in {"reader", "serving"} => ExactlyJobs(disk.segments, jobs)
  /\ resp.stage = "ranked" =>
       \A i, j \in 1..Len(resp.hits) :
         DocAt(reader, resp.hits[i]).op = DocAt(reader, resp.hits[j]).op => i = j

\* the second run on the same list has committed and answers a query
C7_Witness ==
  /\ restarted
  /\ pc = "serving"
  /\ resp.stage = "ranked"
  /\ Len(resp.hits) > 1

\* the results of a search of segs in which every document could be read
ResultsWith(schema, segs, score, top) ==
  [i \in 1..Len(top) |-> SearchResult(schema, DocAt(segs, top[i]), score[top[i]])]

ResultsScored(schema, segs, score) ==
  ResultsWith(schema, segs, score, top_docs(score, Limit))

ResultsOf(schema, segs, text) ==
  ResultsScored(schema, segs, Scores(segs, parse_query(text).clauses))

\* C7 (as claimed): a rebuild on the job list that the committed index was
\* built from leaves the results of every query as they were.
C7_SameResultsAfterRebuild ==
  [][ (/\ restarted
       /\ pc = "adding"
       /\ pc' = "reader"
       /\ ExactlyJobs(disk.segments, jobs)) =>
        \A text \in { t \in Queries : parse_query(t).ok } :
          ResultsOf(disk.schema, disk.segments', text)
            = ResultsOf(disk.schema, disk.segments, text) ]_vars

HitScore(i) == resp.results[i].score
HitOp(i) == DocAt(reader, resp.hits[i]).op

\* C8 (as claimed): results are in descending score order and hits of
\* equal score are in the order their jobs were inserted.
C8_TiesInInsertionOrder ==
  resp.stage = "ranked" =>
    \A i, j \in 1..Len(resp.hits) :
      i < j => \/ HitScore(i) > HitScore(j)
               \/ (HitScore(i) = HitScore(j) /\ HitOp(i) < HitOp(j))

\* a outranks b: higher score, or equal score and lower address
Outranks(score, a, b) ==
  \/ score[a] > score[b]
  \/ (score[a] = score[b] /\ (a[1] < b[1] \/ (a[1] = b[1] /\ a[2] < b[2])))

RankedAsCollected(score) ==
  /\ \A i \in 1..Len(resp.hits) :
       /\ score[resp.hits[i]] > 0
       /\ resp.hits[i] \notin req.bad
       /\ HitScore(i) = score[resp.hits[i]]
  /\ \A i, j \in 1..Len(resp.hits) :
       i < j => Outranks(score, resp.hits[i], resp.hits[j])
  /\ \A m \in { a \in DOMAIN score : score[a] > 0 } \ Range(resp.hits) :
       \/ m \in req.bad
       \/ Cardinality({ a \in DOMAIN score : score[a] > 0 /\ Outranks(score, a, m) })
            >= Limit

\* C8 (what holds instead): the hits are the first 10 matching documents
\* in the order of descending score, equal scores in ascending address
\* order (segment, then position in the segment), less the hits whose
\* document could not be read.
C8_RankedByScoreThenAddress ==
  resp.stage = "ranked" =>
    \A score \in {Scores(reader, parse_query(resp.query).clauses)} :
      RankedAsCollected(score)

\* ten hits of more than ten matches of two different scores, the best
\* match first, and two hits of equal score returned against their
\* insertion order
C8_Witness ==
  /\ resp.stage = "ranked"
  /\ Len(resp.hits) = Limit
  /\ Cardinality(Matching(reader, resp.query)) > Limit
  /\ \E m \in Matching(reader, resp.query) :
       Scores(reader, parse_query(resp.query).clauses)[m] # HitScore(1)
  /\ \E i, j \in 1..Len(resp.hits) :
       i < j /\ HitScore(i) = HitScore(j) /\ HitOp(i) > HitOp(j)

(***************************************************************************)
(* extract_salary: the matches of \$?(\d{1,3}(?:,\d{3})*|\d+) from left to *)
(* right, each continuing where the one before ended; the first whose      *)
(* digits read as a number >= 1000 is the result.                          *)
(*                                                                         *)
(* The pattern is matched the way the regex crate matches: of the two      *)
(* alternatives the first that matches is taken.  \d{1,3}(?:,\d{3})* takes *)
(* up to three digits and then every ",ddd" group that follows, and it     *)
(* matches wherever a digit stands, so \d+ is never tried.  \d is any      *)
(* decimal digit of Unicode; the filter before the parse keeps the ASCII   *)
(* digits only.                                                            *)
(***************************************************************************)
\* longest text given to extract_salary, besides the texts of the tests
MaxSalaryLen == 5

\* if num >= 1000
MinSalary == 1000

Digits == {"0", "1", "2", "3", "4", "5", "6", "7", "8", "9"}

DigitValue(c) ==
  CASE c = "0" -> 0 [] c = "1" -> 1 [] c = "2" -> 2 [] c = "3" -> 3
    [] c = "4" -> 4 [] c = "5" -> 5 [] c = "6" -> 6 [] c = "7" -> 7
    [] c = "8" -> 8 [] c = "9" -> 9

\* a decimal digit that is not ASCII: the character U+0660 (ARABIC-INDIC
\* DIGIT ZERO), written by its code point
OtherDigits == {"U+0660"}

\* \d of the pattern
RegexDigits == Digits \cup OtherDigits

IsDigitAt(text, p) == p >= 1 /\ p <= Len(text) /\ text[p] \in RegexDigits

RECURSIVE DigitRun(_, _)
\* number of digits in a row from position p
DigitRun(text, p) ==
  IF IsDigitAt(text, p) THEN 1 + DigitRun(text, p + 1) ELSE 0

RECURSIVE CommaGroups(_, _)
\* (?:,\d{3})* from position p: the position after the last group taken
CommaGroups(text, p) ==
  IF /\ p <= Len(text)
     /\ text[p] = ","
     /\ IsDigitAt(text, p + 1) /\ IsDigitAt(text, p + 2) /\ IsDigitAt(text, p + 3)
  THEN CommaGroups(text, p + 4)
  ELSE p

\* \d{1,3}(?:,\d{3})* from a digit at position s: the position after the match
GroupedEnd(text, s) == CommaGroups(text, s + Min(3, DigitRun(text, s)))

\* \d+ from a digit at position s: the position after the match
PlainEnd(text, s) == s + DigitRun(text, s)

\* where the digits of a match that starts at p begin (after an optional
\* dollar sign), 0 if no match starts at p
CaptureStart(text, p) ==
  IF text[p] = "$" /\ IsDigitAt(text, p + 1) THEN p + 1
  ELSE IF IsDigitAt(text, p) THEN p
  ELSE 0

\* .chars().filter(|c| c.is_ascii_digit()).collect()
clean_number(cs) == SelectSeq(cs, LAMBDA c : c \in Digits)

RECURSIVE StripZeros(_)
StripZeros(ds) ==
  IF ds # <<>> /\ Head(ds) = "0" THEN StripZeros(Tail(ds)) ELSE ds

\* i64::MAX in digits
I64Max ==
  <<"9", "2", "2", "3", "3", "7", "2", "0", "3", "6", "8", "5", "4", "7", "7",
    "5", "8", "0", "7">>

RECURSIVE DigitsLeq(_, _)
\* a <= b for numbers of equally many digits
DigitsLeq(a, b) ==
  IF a = <<>> THEN TRUE
  ELSE IF DigitValue(Head(a)) # DigitValue(Head(b))
  THEN DigitValue(Head(a)) < DigitValue(Head(b))
  ELSE DigitsLeq(Tail(a), Tail(b))

RECURSIVE ParseDigits(_, _)
ParseDigits(ds, acc) ==
  IF ds = <<>> THEN acc
  ELSE ParseDigits(Tail(ds), 10 * acc + DigitValue(Head(ds)))

\* str::parse::<i64> of a text of ASCII digits: Err (None) for the empty
\* text and for a number above i64::MAX
parse_i64(ds) ==
  IF ds = <<>> THEN None
  ELSE IF Len(StripZeros(ds)) > Len(I64Max) THEN None
  ELSE IF Len(StripZeros(ds)) = Len(I64Max) /\ ~DigitsLeq(StripZeros(ds), I64Max)
  THEN None
  ELSE Some(ParseDigits(StripZeros(ds), 0))

\* the number of a capture, if it parses and is at least 1000
salary_of(capture) ==
  IF parse_i64(clean_number(capture)) = None THEN None
  ELSE IF parse_i64(clean_number(capture))[1] >= MinSalary
  THEN parse_i64(clean_number(capture))
  ELSE None

RECURSIVE ScanSalary(_, _)
ScanSalary(text, p) ==
  IF p > Len(text) THEN None
  ELSE IF CaptureStart(text, p) = 0 THEN ScanSalary(text, p + 1)
  ELSE IF salary_of(SubSeq(text, CaptureStart(text, p),
                           GroupedEnd(text, CaptureStart(text, p)) - 1)) # None
       THEN salary_of(SubSeq(text, CaptureStart(text, p),
                             GroupedEnd(text, CaptureStart(text, p)) - 1))
       ELSE ScanSalary(text, GroupedEnd(text, CaptureStart(text, p)))

extract_salary(text) == ScanSalary(text, 1)

\* the arguments of the tests (lines 174-193)
TestSalaryTexts ==
  { <<"$", "5", "0", ",", "0", "0", "0", " ", "-", " ", "$", "7", "0", ",", "0", "0", "0">>,
    <<"S", "a", "l", "a", "r", "y", ":", " ", "6", "0", "0", "0", "0", " ", "U", "S", "D">>,
    <<"C", "o", "m", "p", "e", "t", "i", "t", "i", "v", "e", " ", "s", "a", "l", "a", "r", "y">>,
    <<"$", "1", "2", "0", ",", "0", "0", "0", "/", "y", "e", "a", "r">> }

SalaryChars == {"$", ",", "0", "6", " ", "U+0660"}

SalaryTexts ==
  TestSalaryTexts \cup UNION { [1..n -> SalaryChars] : n \in 0..MaxSalaryLen }

InitSalary ==
  /\ salary_pc = "call"
  /\ salary_raw \in SalaryTexts
  /\ salary_min = None
  /\ ServerOff
  /\ ScraperOff

ExtractSalary ==
  /\ salary_pc = "call"
  /\ salary_pc' = "returned"
  /\ salary_min' = extract_salary(salary_raw)
  /\ UNCHANGED <<salary_raw, serverVars, scraperVars>>

NextSalary == ExtractSalary

SpecSalary == InitSalary /\ [][NextSalary]_vars

\* the number meant by the pattern at a digit at position s: the longer of
\* the comma-grouped number and the plain run of digits
NumberEnd(text, s) ==
  IF PlainEnd(text, s) > GroupedEnd(text, s)
  THEN PlainEnd(text, s) ELSE GroupedEnd(text, s)

RECURSIVE FirstSalary(_, _)
\* the first number of the text, commas removed, that is at least 1000
FirstSalary(text, p) ==
  IF p > Len(text) THEN None
  ELSE IF CaptureStart(text, p) = 0 THEN FirstSalary(text, p + 1)
  ELSE IF salary_of(SubSeq(text, CaptureStart(text, p),
                           NumberEnd(text, CaptureStart(text, p)) - 1)) # None
       THEN salary_of(SubSeq(text, CaptureStart(text, p),
                             NumberEnd(text, CaptureStart(text, p)) - 1))
       ELSE FirstSalary(text, NumberEnd(text, CaptureStart(text, p)))

\* every digit of the text is an ASCII digit
AsciiDigitsOnly(text) == \A i \in 1..Len(text) : text[i] \notin OtherDigits

\* C9 (as claimed): extract_salary returns the first number of the text,
\* commas removed, that is at least 1000, also where the number is written
\* without commas, and None where there is no such number.  Stated for the
\* texts whose digits are ASCII: the claim does not say how another digit
\* reads.
C9_FirstNumberAtLeast1000 ==
  (salary_pc = "returned" /\ AsciiDigitsOnly(salary_raw)) =>
    salary_min = FirstSalary(salary_raw, 1)

\* the tests of the source on extract_salary
C9_TestsHold ==
  salary_pc = "returned" =>
    /\ salary_raw = <<"$", "5", "0", ",", "0", "0", "0", " ", "-", " ", "$", "7", "0", ",", "0", "0", "0">>
         => salary_min = Some(50000)
    /\ salary_raw = <<"$", "1", "2", "0", ",", "0", "0", "0", "/", "y", "e", "a", "r">>
         => salary_min = Some(120000)
    /\ salary_raw = <<"C", "o", "m", "p", "e", "t", "i", "t", "i", "v", "e", " ", "s", "a", "l", "a", "r", "y">>
         => salary_min = None

(***************************************************************************)
(* The scraper's main, statement by statement: for each of the four pages, *)
(* fetch it and go through its listings; then write data/jobs.json.  A     *)
(* listing is what the selectors find in it: the texts of the title,       *)
(* company and region elements and the href of the link (None where there  *)
(* is no such element), and the text of the whole element.                 *)
(*                                                                         *)
(* The job of a listing has the fields the literal `Job { .. }` names: it  *)
(* has no salary_raw, which is why rustc rejects the crate as it stands    *)
(* (BuildScraper).  SpecScraper is what the statements of main do with     *)
(* the listings, the literal taken as written.                             *)
(***************************************************************************)
\* listings on one page
MaxListings == 2

\* the urls of main
NumUrls == 4

Site ==
  <<"h", "t", "t", "p", "s", ":", "/", "/", "w", "e", "w", "o", "r", "k", "r",
    "e", "m", "o", "t", "e", "l", "y", ".", "c", "o", "m">>
Elsewhere == <<"h", "t", "t", "p", ":", "/", "/", "o">>

\* the characters with the Unicode property White_Space, which str::trim
\* removes; those without an escape are written by their code point
Blank ==
  {"\t", "\n", "U+000B", "\f", "\r", " ", "U+0085", "U+00A0", "U+1680",
   "U+2000", "U+2001", "U+2002", "U+2003", "U+2004", "U+2005", "U+2006",
   "U+2007", "U+2008", "U+2009", "U+200A", "U+2028", "U+2029", "U+202F",
   "U+205F", "U+3000"}

UnknownTitle == <<"U", "n", "k", "n", "o", "w", "n", " ", "T", "i", "t", "l", "e">>
UnknownCompany ==
  <<"U", "n", "k", "n", "o", "w", "n", " ", "C", "o", "m", "p", "a", "n", "y">>
Remote == <<"R", "e", "m", "o", "t", "e">>
NoUrl == <<"N", "o", " ", "U", "R", "L">>

RECURSIVE TrimStart(_)
TrimStart(text) ==
  IF text # <<>> /\ Head(text) \in Blank THEN TrimStart(Tail(text)) ELSE text

RECURSIVE TrimEnd(_)
TrimEnd(text) ==
  IF text # <<>> /\ text[Len(text)] \in Blank
  THEN TrimEnd(SubSeq(text, 1, Len(text) - 1)) ELSE text

\* str::trim
Trim(text) == TrimEnd(TrimStart(text))

\* .replace('\n', " ")
ReplaceNewlines(text) == [i \in 1..Len(text) |-> IF text[i] = "\n" THEN " " ELSE text[i]]

RECURSIVE ReplaceDoubleSpaces(_)
\* .replace("  ", " "): one pass from the left, matches do not overlap
ReplaceDoubleSpaces(text) ==
  IF Len(text) >= 2 /\ text[1] = " " /\ text[2] = " "
  THEN <<" ">> \o ReplaceDoubleSpaces(SubSeq(text, 3, Len(text)))
  ELSE IF text = <<>> THEN <<>>
  ELSE <<Head(text)>> \o ReplaceDoubleSpaces(Tail(text))

\* .map(|el| el.text().collect().trim()).unwrap_or_else(|| default)
text_or(el, default) == IF el = None THEN default ELSE Trim(el[1])

\* href.starts_with("http")
starts_with_http(href) ==
  Len(href) >= 4 /\ SubSeq(href, 1, 4) = <<"h", "t", "t", "p">>

job_url(href) ==
  IF href = None THEN NoUrl
  ELSE IF starts_with_http(href[1]) THEN href[1]
  ELSE Site \o href[1]

\* the job of a listing: the fields of the literal, without salary_raw
ScrapedJob(l) ==
  [title |-> text_or(l.title, UnknownTitle),
   company |-> text_or(l.company, UnknownCompany),
   location |-> text_or(l.region, Remote),
   description |-> ReplaceDoubleSpaces(ReplaceNewlines(Trim(l.text))),
   salary_min |-> extract_salary(l.text),
   url |-> job_url(l.href)]

\* job.title != "Unknown Title" && !job.title.is_empty()
valid_title(job) == job.title # UnknownTitle /\ job.title # <<>>

\* a check that never finds a url
never_seen(seen, url) == FALSE

\* seen_urls.contains(&job_url)
already_seen(seen, url) == url \in seen

TitleElements ==
  {None, Some(<<"U+00A0">>), Some(<<"\f", "T">>), Some(<<" ">> \o UnknownTitle)}
Hrefs ==
  {None, Some(<<>>), Some(<<"/", "j">>), Some(Site \o <<"/", "j">>),
   Some(Elsewhere)}

\* the rest of a listing: company and region elements, text of the whole
Bodies ==
  { [company |-> None, region |-> None,
     text |-> <<" ", "T", "\n", " ", "6", "0", "0", "0">>],
    [company |-> Some(<<"c", " ">>), region |-> Some(<<"\t", "R">>),
     text |-> <<"T", " ", " ", "$", "6", ",", "0", "0", "0", " ">>] }

Listings ==
  { [title |-> t, company |-> b.company, region |-> b.region, href |-> h,
     text |-> b.text] :
      t \in TitleElements, h \in Hrefs, b \in Bodies }

InitScraper ==
  /\ spc = "fetch"
  /\ url_idx = 1
  /\ taken = 0
  /\ found = <<>>
  /\ seen_urls = {}
  /\ saved = NoFile
  /\ ServerOff
  /\ SalaryOff

\* reqwest::blocking::get and response.text(): on an error the page is skipped
Fetch ==
  /\ spc = "fetch"
  /\ url_idx <= NumUrls
  /\ \E ok \in BOOLEAN :
       IF ok
       THEN /\ spc' = "select"
            /\ taken' = 0
            /\ UNCHANGED url_idx
       ELSE /\ url_idx' = url_idx + 1
            /\ UNCHANGED <<spc, taken>>
  /\ UNCHANGED <<found, seen_urls, saved, serverVars, salaryVars>>

\* one turn of `for element in document.select(&job_selector)`
Listing ==
  /\ spc = "select"
  /\ taken < MaxListings
  /\ taken' = taken + 1
  /\ \E l \in Listings :
       IF already_seen(seen_urls, job_url(l.href))
       THEN UNCHANGED <<found, seen_urls>>
       ELSE /\ seen_urls' = seen_urls \cup {job_url(l.href)}
            /\ found' = IF valid_title(ScrapedJob(l))
                        THEN Append(found, ScrapedJob(l)) ELSE found
  /\ UNCHANGED <<spc, url_idx, saved, serverVars, salaryVars>>

\* the page has no more listings
EndPage ==
  /\ spc = "select"
  /\ spc' = "fetch"
  /\ url_idx' = url_idx + 1
  /\ UNCHANGED <<taken, found, seen_urls, saved, serverVars, salaryVars>>

\* fs::create_dir_all, serde_json::to_string_pretty and fs::write of
\* data/jobs.json.  When the directory cannot be made or the file cannot be
\* written the process ends (expect); fs::write truncates the file before
\* it writes, so a failed write leaves the file as it was or cut short.
Save ==
  /\ spc = "fetch"
  /\ url_idx > NumUrls
  /\ \/ /\ saved' = WholeFile(found)
        /\ spc' = "done"
     \/ /\ saved' \in {saved, PartialFile}
        /\ spc' = "panicked"
  /\ UNCHANGED <<url_idx, taken, found, seen_urls, serverVars, salaryVars>>

NextScraper ==
  \/ Fetch
  \/ Listing
  \/ EndPage
  \/ Save

SpecScraper == InitScraper /\ [][NextScraper]_vars

NoTwoJobsShareUrl ==
  \A i, j \in 1..Len(found) : found[i].url = found[j].url => i = j

EveryTitleValid ==
  \A i \in 1..Len(found) :
    found[i].title # <<>> /\ found[i].title # UnknownTitle

\* C10: at every point of the scraper's run no two jobs found share a url
\* and every job found has a title that is neither empty nor "Unknown
\* Title"; the list only grows at its end, by a job whose url was not seen
\* before, so jobs stay in the order their listings were first met.
C10_JobsUniqueValidInOrder ==
  /\ [](NoTwoJobsShareUrl /\ EveryTitleValid)
  /\ [][ \/ found' = found
         \/ /\ Len(found') = Len(found) + 1
            /\ SubSeq(found', 1, Len(found)) = found
            /\ found'[Len(found')].url \notin seen_urls
            /\ found'[Len(found')].url \in seen_urls' ]_vars

\* the run is over with two jobs found, and a url was seen whose listing
\* gave no job
C10_Witness ==
  /\ spc = "done"
  /\ Len(found) >= 2
  /\ Cardinality(seen_urls) > Len(found)
  /\ saved = WholeFile(found)
=============================================================================
